---- MODULE Spec2Model ----
(***************************************************************************)
(* Reading Journal: the Entry model (config/appConfig.js), the Data        *)
(* Service (backend/services/DataService.js), the Storage Service over     *)
(* localStorage, and the handlers of the two front-ends that call them.    *)
(*                                                                         *)
(* Representation                                                          *)
(*   - a JavaScript string is a sequence of one-character strings;         *)
(*     Undefined stands for the value `undefined` of a string field;       *)
(*   - a time is the integer Date.now() returns; new Date().toISOString()  *)
(*     of that instant is represented by the same integer (the ISO form is *)
(*     an order-preserving injection of the instant);                      *)
(*   - null in a numeric or date field is Null;                            *)
(*   - a plain object is a record; a key the object lacks is absent from   *)
(*     the record's DOMAIN;                                                *)
(*   - a JSON text is <<"json", value>>; a missing localStorage key holds  *)
(*     Absent;                                                             *)
(*   - gid is a ghost field: the lineage of an Entry (the ordinal of the   *)
(*     addEntry call that created it).  No code reads it; every copy of an *)
(*     entry carries it.                                                   *)
(***************************************************************************)
EXTENDS Integers, Sequences, FiniteSets, TLC

\* ------------------------------------------------------------------ bounds
\* the clock stops at MaxTime
MaxTime == 3

\* the handler calls followed after construction
MaxCalls == 3

\* --------------------------------------------------------------- JS values
Null == -1

Undefined == <<"undefined">>

Absent == <<"absent">>

SeqToSet(s) == {s[i] : i \in 1..Len(s)}

\* Array.prototype.filter
RECURSIVE SelectSeqBy(_, _)
SelectSeqBy(s, keep) ==
    IF s = <<>> THEN <<>>
    ELSE IF Head(s) \in keep THEN <<Head(s)>> \o SelectSeqBy(Tail(s), keep)
         ELSE SelectSeqBy(Tail(s), keep)

\* String.prototype.toLowerCase on one character
LowerChar(c) ==
    CASE c = "A" -> "a"
      [] c = "B" -> "b"
      [] c = "D" -> "d"
      [] c = "R" -> "r"
      [] OTHER -> c

\* String.prototype.toLowerCase
ToLowerCase(s) == [i \in 1..Len(s) |-> LowerChar(s[i])]

RECURSIVE TrimStart(_)
TrimStart(s) ==
    IF s # <<>> /\ Head(s) = " " THEN TrimStart(Tail(s)) ELSE s

RECURSIVE TrimEnd(_)
TrimEnd(s) ==
    IF s # <<>> /\ s[Len(s)] = " " THEN TrimEnd(SubSeq(s, 1, Len(s) - 1)) ELSE s

\* String.prototype.trim
Trim(s) == TrimEnd(TrimStart(s))

\* JS `data[key] || def` for a string field
StrOr(data, key, def) ==
    IF key \in DOMAIN data /\ data[key] # Undefined /\ data[key] # <<>>
    THEN data[key] ELSE def

\* JS `data[key] || def` for a numeric or date field (null, 0 are falsy)
NumOr(data, key, def) ==
    IF key \in DOMAIN data /\ data[key] # Null /\ data[key] # 0
    THEN data[key] ELSE def

\* JS `data[key] || def` for an array field (every array is truthy)
ArrOr(data, key, def) ==
    IF key \in DOMAIN data THEN data[key] ELSE def

\* JS `data[key]` for a string field: undefined when the key is missing
StrGet(data, key) ==
    IF key \in DOMAIN data THEN data[key] ELSE Undefined

\* ------------------------------------------------------------------- Entry
\* Entry.formatDate: the calendar day of the timestamp (a day is two ticks)
FormatDate(timestamp) == (timestamp + 1) \div 2

\* Entry.constructor(data), run at time t; g is the ghost lineage
Entry(data, t, g) ==
    LET ts == NumOr(data, "timestamp", t) IN
    [ gid             |-> IF "gid" \in DOMAIN data THEN data.gid ELSE g,
      id              |-> NumOr(data, "id", t),
      sourceType      |-> StrGet(data, "sourceType"),
      sourceName      |-> StrGet(data, "sourceName"),
      author          |-> StrOr(data, "author", <<>>),
      reflection      |-> StrGet(data, "reflection"),
      timestamp       |-> ts,
      lastEdited      |-> NumOr(data, "lastEdited", Null),
      dateFormatted   |-> NumOr(data, "dateFormatted", FormatDate(ts)),
      editCount       |-> NumOr(data, "editCount", 0),
      additionalNotes |-> StrOr(data, "additionalNotes", <<>>),
      keyTakeaways    |-> ArrOr(data, "keyTakeaways", <<>>),
      relatedLinks    |-> ArrOr(data, "relatedLinks", <<>>),
      tags            |-> ArrOr(data, "tags", <<>>),
      rating          |-> NumOr(data, "rating", Null),
      progress        |-> StrOr(data, "progress", <<>>) ]

\* Entry.create(formData)
EntryCreate(formData, t, g) ==
    Entry([ sourceType |-> StrGet(formData, "sourceType"),
            sourceName |-> StrGet(formData, "sourceName"),
            author     |-> StrGet(formData, "author"),
            reflection |-> StrGet(formData, "reflection") ], t, g)

\* faulty variant of UpdateAssigns: id and timestamp are not excluded
UpdateAssignsAnyOwn(e, updates, key) ==
    key \in DOMAIN updates /\ key \in DOMAIN e

\* the own properties update() may assign: every one but id and timestamp
UpdateAssigns(e, updates, key) ==
    key \in DOMAIN updates /\ key \in DOMAIN e /\ key # "id" /\ key # "timestamp"

\* the value update() leaves in own property key
Updated(e, updates, key) ==
    IF UpdateAssigns(e, updates, key) THEN updates[key] ELSE e[key]

\* Entry.update(updates) at time t
EntryUpdate(e, updates, t) ==
    [ gid             |-> e.gid,
      id              |-> Updated(e, updates, "id"),
      sourceType      |-> Updated(e, updates, "sourceType"),
      sourceName      |-> Updated(e, updates, "sourceName"),
      author          |-> Updated(e, updates, "author"),
      reflection      |-> Updated(e, updates, "reflection"),
      timestamp       |-> Updated(e, updates, "timestamp"),
      lastEdited      |-> t,
      dateFormatted   |-> FormatDate(Updated(e, updates, "timestamp")),
      editCount       |-> Updated(e, updates, "editCount") + 1,
      additionalNotes |-> Updated(e, updates, "additionalNotes"),
      keyTakeaways    |-> Updated(e, updates, "keyTakeaways"),
      relatedLinks    |-> Updated(e, updates, "relatedLinks"),
      tags            |-> Updated(e, updates, "tags"),
      rating          |-> Updated(e, updates, "rating"),
      progress        |-> Updated(e, updates, "progress") ]

\* Entry.addTakeaway(takeaway) at time t
EntryAddTakeaway(e, takeaway, t) ==
    IF takeaway # Undefined /\ takeaway # <<>> /\ Trim(takeaway) # <<>>
    THEN [e EXCEPT !.keyTakeaways =
                      Append(@, [id |-> t, text |-> Trim(takeaway), createdAt |-> t]),
                   !.lastEdited = t]
    ELSE e

\* Entry.removeTakeaway(takeawayId) at time t
EntryRemoveTakeaway(e, takeawayId, t) ==
    [e EXCEPT !.keyTakeaways =
                 SelectSeqBy(@, {x \in SeqToSet(@) : x.id # takeawayId}),
              !.lastEdited = t]

\* Entry.addRelatedLink(url, title) at time t
EntryAddRelatedLink(e, url, title, t) ==
    IF url # Undefined /\ url # <<>> /\ Trim(url) # <<>>
    THEN [e EXCEPT !.relatedLinks =
                      Append(@, [id |-> t, url |-> Trim(url),
                                 title |-> IF Trim(title) # <<>> THEN Trim(title)
                                           ELSE Trim(url),
                                 createdAt |-> t]),
                   !.lastEdited = t]
    ELSE e

\* Entry.removeRelatedLink(linkId) at time t
EntryRemoveRelatedLink(e, linkId, t) ==
    [e EXCEPT !.relatedLinks =
                 SelectSeqBy(@, {x \in SeqToSet(@) : x.id # linkId}),
              !.lastEdited = t]

\* faulty variant of EntryAddTag: looks the tag up before lower-casing it
EntryAddTagCaseSensitive(e, tag, t) ==
    IF tag # Undefined /\ tag # <<>> /\ Trim(tag) # <<>>
       /\ Trim(tag) \notin SeqToSet(e.tags)
    THEN [e EXCEPT !.tags = Append(@, ToLowerCase(Trim(tag))),
                   !.lastEdited = t]
    ELSE e

\* Entry.addTag(tag) at time t
EntryAddTag(e, tag, t) ==
    IF tag # Undefined /\ tag # <<>> /\ Trim(tag) # <<>>
       /\ ToLowerCase(Trim(tag)) \notin SeqToSet(e.tags)
    THEN [e EXCEPT !.tags = Append(@, ToLowerCase(Trim(tag))),
                   !.lastEdited = t]
    ELSE e

\* Entry.removeTag(tag) at time t
EntryRemoveTag(e, tag, t) ==
    [e EXCEPT !.tags = SelectSeqBy(@, {x \in SeqToSet(@) : x # tag}),
              !.lastEdited = t]

\* Entry.setRating(rating) at time t
EntrySetRating(e, rating, t) ==
    IF rating >= 1 /\ rating <= 5
    THEN [e EXCEPT !.rating = rating, !.lastEdited = t]
    ELSE e

\* Entry.getSortDate(sortBy)
GetSortDate(e, sortBy) ==
    IF sortBy = "edited" /\ e.lastEdited # Null /\ e.lastEdited # 0
    THEN e.lastEdited ELSE e.timestamp

\* Entry.toObject()
ToObject(e) ==
    [ gid             |-> e.gid,
      id              |-> e.id,
      sourceType      |-> e.sourceType,
      sourceName      |-> e.sourceName,
      author          |-> e.author,
      reflection      |-> e.reflection,
      timestamp       |-> e.timestamp,
      lastEdited      |-> e.lastEdited,
      dateFormatted   |-> e.dateFormatted,
      editCount       |-> e.editCount,
      additionalNotes |-> e.additionalNotes,
      keyTakeaways    |-> e.keyTakeaways,
      relatedLinks    |-> e.relatedLinks,
      tags            |-> e.tags,
      rating          |-> e.rating,
      progress        |-> e.progress ]

\* the `!field || field.trim() === ''` test of Entry.validate
IsBlank(s) == s = Undefined \/ s = <<>> \/ Trim(s) = <<>>

\* faulty variant of ValidateErrors: tests the fields without trimming them
ValidateErrorsUntrimmed(e) ==
    (IF e.sourceType = Undefined \/ e.sourceType = <<>>
     THEN <<"Source type is required">> ELSE <<>>)
    \o (IF e.sourceName = Undefined \/ e.sourceName = <<>>
        THEN <<"Source name is required">> ELSE <<>>)
    \o (IF e.reflection = Undefined \/ e.reflection = <<>>
        THEN <<"Reflection is required">> ELSE <<>>)

\* Entry.validate(): the error list
ValidateErrors(e) ==
    (IF IsBlank(e.sourceType) THEN <<"Source type is required">> ELSE <<>>)
    \o (IF IsBlank(e.sourceName) THEN <<"Source name is required">> ELSE <<>>)
    \o (IF IsBlank(e.reflection) THEN <<"Reflection is required">> ELSE <<>>)

\* faulty variant of IsValid: the reflection is not looked at
IsValidWithoutReflection(e) ==
    ~IsBlank(e.sourceType) /\ ~IsBlank(e.sourceName)

\* Entry.validate().isValid
IsValid(e) == Len(ValidateErrors(e)) = 0


\* ------------------------------------------------------------------- state
\* entries, observers: the DataService's fields; localStorage: the browser
\* store, available: whether it can be used, and failing: the keys whose
\* setItem throws (the quota is exceeded); currentEntryId: the entry the
\* detail view shows; now: the clock; searchBox: the SearchBox's timer handle
\* and the text of its input element; timers: the timeouts the browser holds;
\* peerEntries: the entries field of the DataService of a second tab on the
\* same store; returned: the array the latest query handed to its caller;
\* adding: the statement an addEntry in progress has reached, and its entry;
\* currentTab: the tab ReadingJournalApp shows, activeTab: the tab
\* TabNavigation has marked.
\* History: calls counts the handler calls made, lastOp is the latest call
\* and what it returned, delivered lists the notifications that call handed
\* to the observers.
VARIABLES entries, now, localStorage, available, failing, observers,
          delivered, currentEntryId, searchBox, timers, peerEntries, returned,
          adding, currentTab, activeTab, lastOp, calls

vars == <<entries, now, localStorage, available, failing, observers,
          delivered, currentEntryId, searchBox, timers, peerEntries, returned,
          adding, currentTab, activeTab, lastOp, calls>>

\* ------------------------------------------------------- ValidationService
\* ValidationService.rules: the values allowed for sourceType
AllowedValues ==
    { <<"B", "o", "o", "k">>,
      <<"A", "r", "t", "i", "c", "l", "e">>,
      <<"S", "u", "b", "s", "t", "a", "c", "k">>,
      <<"R", "e", "s", "e", "a", "r", "c", "h", " ", "P", "a", "p", "e", "r">>,
      <<"B", "l", "o", "g", " ", "P", "o", "s", "t">>,
      <<"P", "o", "d", "c", "a", "s", "t">>,
      <<"V", "i", "d", "e", "o">>,
      <<"O", "t", "h", "e", "r">> }

\* ValidationService.rules: the length limits of sourceName, author and
\* reflection
SourceNameMinLength == 2

SourceNameMaxLength == 200

AuthorMaxLength == 100

ReflectionMinLength == 10

ReflectionMaxLength == 5000

\* ---------------------------------------------------------- StorageService
STORAGE_KEY == "readingJournalEntries"

BACKUP_KEY == "readingJournalBackup"

SETTINGS_KEY == "readingJournalSettings"

\* the keys of an entry object that can hold `undefined`
StringKeys == {"sourceType", "sourceName", "reflection"}

\* JSON.stringify of one object: a key whose value is undefined is left out
StringifyObject(o) ==
    [key \in {k \in DOMAIN o : ~(k \in StringKeys /\ o[k] = Undefined)} |-> o[key]]

\* JSON.stringify of an array of entry objects
JsonStringifyEntries(objs) == <<"json", [i \in 1..Len(objs) |-> StringifyObject(objs[i])]>>

\* JSON.stringify of any other object of the model
JsonStringify(o) == <<"json", o>>

\* a stored text that is no JSON text is <<"text", characters>>
EmptyText == <<"text", <<>>>>

GarbageText == <<"text", <<"x">>>>

\* getItem returned null or the empty string: `data ? ... : ...` takes the
\* second branch
Falsy(text) == text = Absent \/ text = EmptyText

\* JSON.parse succeeds on the text
IsJson(text) == text[1] = "json"

\* JSON.parse
JsonParse(text) == text[2]

\* StorageService.restoreFromBackup
RestoreFromBackup(ls, avail) ==
    IF ~avail THEN <<>>
    ELSE IF ~Falsy(ls[BACKUP_KEY]) /\ IsJson(ls[BACKUP_KEY])
            /\ IsJson(JsonParse(ls[BACKUP_KEY]).data)
         THEN JsonParse(JsonParse(ls[BACKUP_KEY]).data)
         ELSE <<>>

\* faulty variant of GetEntries: a parse failure gives the empty collection
\* at once
GetEntriesWithoutRestore(ls, avail) ==
    IF ~avail THEN <<>>
    ELSE IF Falsy(ls[STORAGE_KEY]) THEN <<>>
    ELSE IF IsJson(ls[STORAGE_KEY]) THEN JsonParse(ls[STORAGE_KEY])
    ELSE <<>>

\* StorageService.getEntries
GetEntries(ls, avail) ==
    IF ~avail THEN <<>>
    ELSE IF Falsy(ls[STORAGE_KEY]) THEN <<>>
    ELSE IF IsJson(ls[STORAGE_KEY]) THEN JsonParse(ls[STORAGE_KEY])
    ELSE RestoreFromBackup(ls, avail)

\* localStorage.setItem(key, value), when it does not throw: the store
\* afterwards
SetItem(ls, key, value) == [ls EXCEPT ![key] = value]

\* StorageService.createBackup at time t: the store afterwards (a setItem
\* that throws is caught and leaves the backup as it was)
CreateBackup(ls, avail, fail, t) ==
    IF avail /\ ~Falsy(ls[STORAGE_KEY]) /\ BACKUP_KEY \notin fail
    THEN SetItem(ls, BACKUP_KEY,
                 JsonStringify([data |-> ls[STORAGE_KEY], timestamp |-> t]))
    ELSE ls

\* StorageService.getSettings
GetSettings(ls, avail) ==
    IF ~avail THEN [lastSaved |-> Null]
    ELSE IF ~Falsy(ls[SETTINGS_KEY]) /\ IsJson(ls[SETTINGS_KEY])
         THEN JsonParse(ls[SETTINGS_KEY])
         ELSE [lastSaved |-> Null]

\* StorageService.updateLastSaved at time t: the store afterwards (a setItem
\* that throws is caught)
UpdateLastSaved(ls, avail, fail, t) ==
    IF avail /\ SETTINGS_KEY \notin fail
    THEN SetItem(ls, SETTINGS_KEY,
                 JsonStringify([GetSettings(ls, avail) EXCEPT !.lastSaved = t]))
    ELSE ls

\* a value JSON.stringify throws on: an object that refers to itself
Circular == <<"circular">>

\* the text fields of an entry object (an update can put any value there)
TextKeys ==
    {"sourceType", "sourceName", "author", "reflection", "additionalNotes",
     "progress"}

\* JSON.stringify(entriesData) returns: no text field holds such an object
Serializable(entriesData) ==
    \A i \in 1..Len(entriesData) :
        \A key \in TextKeys \cap DOMAIN entriesData[i] :
            entriesData[i][key] # Circular

\* StorageService.saveEntries(entriesData): the value it returns
StorageSaveResult(avail, fail, entriesData) ==
    avail /\ Serializable(entriesData) /\ STORAGE_KEY \notin fail

\* StorageService.saveEntries(entriesData) at time t: the store afterwards.
\* The backup is made first; JSON.stringify or the setItem of the primary slot
\* may then throw, which ends the call.
StorageSaveEntries(ls, avail, fail, entriesData, t) ==
    IF ~avail THEN ls
    ELSE IF ~Serializable(entriesData) \/ STORAGE_KEY \in fail
         THEN CreateBackup(ls, avail, fail, t)
         ELSE UpdateLastSaved(
                 SetItem(CreateBackup(ls, avail, fail, t), STORAGE_KEY,
                         JsonStringifyEntries(entriesData)),
                 avail, fail, t)

\* faulty variant of ImportAccepts: the reflection is not looked at
ImportAcceptsWithoutReflection(entry) ==
    /\ NumOr(entry, "id", Null) # Null
    /\ StrOr(entry, "sourceName", <<>>) # <<>>

\* the filter of importEntries: entry.id && entry.sourceName &&
\* entry.reflection
ImportAccepts(entry) ==
    /\ NumOr(entry, "id", Null) # Null
    /\ StrOr(entry, "sourceName", <<>>) # <<>>
    /\ StrOr(entry, "reflection", <<>>) # <<>>

\* the validEntries of importEntries
ValidEntries(items) ==
    SelectSeqBy(items, {entry \in SeqToSet(items) : ImportAccepts(entry)})

\* ------------------------------------------------------------- DataService
\* no addEntry is in progress
NotAdding == [step |-> 0]

\* An array as the caller sees it: ref names the array object (the one the
\* entries field refers to, or one made for the caller), items its elements.
\* No query was made yet:
NoArray == [ref |-> "none", items |-> <<>>]

\* faulty variant of FindIndex: falls back to the last index when none matches
FindIndexOrLast(es, id) ==
    IF \E i \in 1..Len(es) : es[i].id = id
    THEN CHOOSE i \in 1..Len(es) :
            es[i].id = id /\ \A j \in 1..(i - 1) : es[j].id # id
    ELSE Len(es)

\* Array.prototype.findIndex(entry => entry.id === id), 0 when there is none
FindIndex(es, id) ==
    IF \E i \in 1..Len(es) : es[i].id = id
    THEN CHOOSE i \in 1..Len(es) :
            es[i].id = id /\ \A j \in 1..(i - 1) : es[j].id # id
    ELSE 0

\* DataService.getEntryById(id): <<entry>>, or <<>> for null
GetEntryById(es, id) ==
    IF FindIndex(es, id) = 0 THEN <<>> ELSE <<es[FindIndex(es, id)]>>

\* stable insertion of e into a sequence sorted descending by sort date
RECURSIVE InsertDesc(_, _, _)
InsertDesc(sorted, e, sortBy) ==
    IF sorted = <<>> THEN <<e>>
    ELSE IF GetSortDate(Head(sorted), sortBy) >= GetSortDate(e, sortBy)
         THEN <<Head(sorted)>> \o InsertDesc(Tail(sorted), e, sortBy)
         ELSE <<e>> \o sorted

RECURSIVE SortDesc(_, _)
SortDesc(es, sortBy) ==
    IF es = <<>> THEN <<>>
    ELSE InsertDesc(SortDesc(SubSeq(es, 1, Len(es) - 1), sortBy), es[Len(es)], sortBy)

\* DataService.getAllEntries(sortBy)
GetAllEntries(es, sortBy) == SortDesc(es, sortBy)

\* faulty variant of SaveEntries: keeps the stored entries the memory lacks
SaveEntriesMerging(es, ls, avail, fail, t) ==
    LET stored == GetEntries(ls, avail)
        kept == SelectSeq(stored,
                    LAMBDA o : \A i \in 1..Len(es) : es[i].gid # o.gid)
    IN StorageSaveEntries(ls, avail, fail,
                          [i \in 1..Len(es) |-> ToObject(es[i])] \o kept, t)

\* faulty variant of Spread: the array itself instead of a copy of it
SpreadShared(es) == [ref |-> "entries", items |-> es]

\* [...this.entries]: a new array with the elements of es
Spread(es) == [ref |-> "copy", items |-> es]

\* Array.prototype.sort with the comparator of getAllEntries: sorts the array
\* in place and returns that same array
ArraySort(array, sortBy) == [array EXCEPT !.items = SortDesc(@, sortBy)]

\* Array.prototype.reverse, on the elements
Reverse(s) == [i \in 1..Len(s) |-> s[Len(s) + 1 - i]]

\* String.prototype.includes
Includes(s, t) ==
    \E i \in 0..(Len(s) - Len(t)) : SubSeq(s, i + 1, i + Len(t)) = t

\* Entry.matchesSearch(searchTerm): the term is lowercased, and so is every
\* text it is looked for in except the tags
MatchesSearch(e, searchTerm) ==
    LET term == ToLowerCase(searchTerm) IN
    \/ Includes(ToLowerCase(e.sourceName), term)
    \/ Includes(ToLowerCase(e.author), term)
    \/ Includes(ToLowerCase(e.reflection), term)
    \/ Includes(ToLowerCase(e.sourceType), term)
    \/ Includes(ToLowerCase(e.additionalNotes), term)
    \/ \E i \in 1..Len(e.tags) : Includes(e.tags[i], term)
    \/ \E i \in 1..Len(e.keyTakeaways) :
          Includes(ToLowerCase(e.keyTakeaways[i].text), term)

\* faulty variant of SearchEntries: the term is matched untrimmed
SearchEntriesUntrimmed(es, searchTerm) ==
    IF searchTerm = <<>> \/ Trim(searchTerm) = <<>>
    THEN ArraySort(Spread(es), "created")
    ELSE [ref |-> "copy",
          items |-> SelectSeqBy(es, {e \in SeqToSet(es) :
                                        MatchesSearch(e, searchTerm)})]

\* DataService.searchEntries(searchTerm): the array it returns (filter makes
\* a new one)
SearchEntries(es, searchTerm) ==
    IF searchTerm = <<>> \/ Trim(searchTerm) = <<>>
    THEN ArraySort(Spread(es), "created")
    ELSE [ref |-> "copy",
          items |-> SelectSeqBy(es, {e \in SeqToSet(es) :
                                        MatchesSearch(e, Trim(searchTerm))})]

\* faulty variant of AddStatements: the observers are told before the save
AddStatementsNotifyFirst == <<"unshift", "notifyObservers", "saveEntries">>

\* the statements DataService.addEntry runs once the entry passed validation,
\* in their order
AddStatements == <<"unshift", "saveEntries", "notifyObservers">>

\* weekAgo.setDate(weekAgo.getDate() - 7): the days gone back
DaysBack == 7

\* the ticks of a day (see FormatDate)
DayTicks == 2

\* DataService.getStatistics() at time t
GetStatistics(es, t) ==
    LET weekAgo == t - DaysBack * DayTicks IN
    [ totalEntries  |-> Len(es),
      uniqueSources |->
          Cardinality({ToLowerCase(es[i].sourceName) : i \in 1..Len(es)}),
      thisWeek      |->
          Cardinality({i \in 1..Len(es) : es[i].timestamp >= weekAgo}) ]

\* DataService.saveEntries at time t: the store afterwards
SaveEntries(es, ls, avail, fail, t) ==
    StorageSaveEntries(ls, avail, fail, [i \in 1..Len(es) |-> ToObject(es[i])], t)

\* the callbacks that throw when they are invoked
Raises(callback) == callback = "raising"

\* faulty variant of NotifyObservers: without the try/catch, the forEach ends
\* at the first callback that throws
NotifyObserversUncaught(obs, event, g) ==
    LET last == IF \E i \in 1..Len(obs) : Raises(obs[i])
                THEN CHOOSE i \in 1..Len(obs) :
                        Raises(obs[i]) /\ \A j \in 1..(i - 1) : ~Raises(obs[j])
                ELSE Len(obs)
    IN [i \in 1..last |-> [callback |-> obs[i], event |-> event, gid |-> g]]

\* DataService.notifyObservers(event, data): what each observer receives, in
\* the order of the invocations (what a callback throws is caught and logged)
NotifyObservers(obs, event, g) ==
    [i \in 1..Len(obs) |-> [callback |-> obs[i], event |-> event, gid |-> g]]

\* the record of a call: its name, its argument (where a claim reads it),
\* whether it succeeded, its error list and the lineage of the entry it
\* returned or worked on
Result(op, success, error, g, arg) ==
    [op |-> op, success |-> success, error |-> error, gid |-> g, arg |-> arg]

\* DataService.loadEntries at time t: the entries built from the store
LoadedEntries(ls, avail, t) ==
    LET stored == GetEntries(ls, avail)
    IN [i \in 1..Len(stored) |-> Entry(stored[i], t, 0)]

\* faulty variant of Unshift: assigns to index 0 instead of inserting there
UnshiftOverwriting(es, entry) ==
    IF es = <<>> THEN <<entry>> ELSE [es EXCEPT ![1] = entry]

\* Array.prototype.unshift(entry)
Unshift(es, entry) == <<entry>> \o es

\* Array.prototype.splice(i, 1): the array afterwards
Splice(es, i) == SubSeq(es, 1, i - 1) \o SubSeq(es, i + 1, Len(es))




\* --------------------------------------------------------------- SearchBox
\* SearchBox.debounceDelay, in milliseconds
DebounceDelay == 300

\* SearchBox.constructor: no timer yet.  value is the text of the input
\* element.  History: quiet is the time since the latest input event (it
\* stops counting at DebounceDelay) and evaluated the number of onSearch calls
\* since then.
NewSearchBox ==
    [debounceTimer |-> Null, value |-> <<>>, quiet |-> 0, evaluated |-> 0]

\* faulty variant of ClearTimeout: the timeout stays
ClearTimeoutForgotten(pending, id) == pending

\* `if (this.debounceTimer) clearTimeout(this.debounceTimer)`: the timeouts
\* the browser still holds
ClearTimeout(pending, id) ==
    IF id # Null /\ id # 0 THEN {timer \in pending : timer.id # id} ELSE pending

\* setTimeout(callback, delay), the callback closing over searchTerm
SetTimeout(pending, id, searchTerm, delay) ==
    pending \cup {[id |-> id, searchTerm |-> searchTerm, remaining |-> delay]}

\* the larger of two numbers
Max(a, b) == IF a >= b THEN a ELSE b

\* the smaller of two numbers
Min(a, b) == IF a <= b THEN a ELSE b

\* ------------------------------------------------------------------ inputs
\* form data handed to addEntry: valid, and invalid in each required field
FormInputs ==
    { [sourceType |-> <<"B">>, sourceName |-> <<"D">>, reflection |-> <<"R">>],
      [sourceName |-> <<"D">>, reflection |-> <<"R">>],
      [sourceType |-> <<"B">>, sourceName |-> <<" ">>, reflection |-> <<"R">>],
      [author |-> <<"A">>] }

\* partial-field objects handed to updateEntry
UpdateInputs ==
    { [reflection |-> <<"R">>, metadata |-> <<>>],
      [reflection |-> <<" ">>],
      [editCount |-> 5, lastEdited |-> Null],
      [id |-> 9, timestamp |-> 9, reflection |-> <<"r">>],
      [tags |-> << <<"A">>, <<"a">> >>],
      [rating |-> 6] }

\* ids a caller may name: every value Date.now() can have had
IdInputs == 1..MaxTime

RatingInputs == {0, 3, 6}

TagInputs == { <<"A">>, <<" ", "a">>, <<" ">> }

TextInputs == { <<"T">>, <<" ">> }

\* partial-field objects of a caller that also hands over an object
\* JSON.stringify cannot serialize
WriteUpdates ==
    { [reflection |-> <<"r">>],
      [progress |-> Circular] }

\* the keys whose setItem throws: none, the primary slot's, the backup slot's
FailingInputs == { {}, {STORAGE_KEY}, {BACKUP_KEY} }

\* callbacks a caller may subscribe: one that throws, one that does not
CallbackInputs == {"raising", "listener"}

\* what the user types into the search box
SearchInputs == { <<"a">>, <<"a", "b">>, <<" ">> }

\* the milliseconds that pass between two events
ElapseInputs == {50, 100, 200}

\* -------------------------------------------------------------------- Init
\* what an earlier session left in the store: nothing, or one entry that it
\* created at time 1 and saved
EarlierEntry ==
    EntryCreate([sourceType |-> <<"B">>, sourceName |-> <<" ", "D">>,
                 author |-> <<"A">>, reflection |-> <<"R">>], 1, 0)

InitialStores ==
    { [key \in {STORAGE_KEY, BACKUP_KEY, SETTINGS_KEY} |-> Absent],
      SaveEntries(<<EarlierEntry>>,
                  [key \in {STORAGE_KEY, BACKUP_KEY, SETTINGS_KEY} |-> Absent],
                  TRUE, {}, 1) }

\* what the primary slot can hold when a session starts: nothing, the empty
\* string, a text that is no JSON, the collection of the earlier session
PrimaryTexts ==
    { Absent, EmptyText, GarbageText,
      JsonStringifyEntries(<<ToObject(EarlierEntry)>>) }

\* what the backup slot can hold then: nothing, a text that is no JSON, a
\* backup whose data is no JSON, a backup of the earlier session's collection
BackupTexts ==
    { Absent, GarbageText,
      JsonStringify([data |-> GarbageText, timestamp |-> 1]),
      JsonStringify([data |-> JsonStringifyEntries(<<ToObject(EarlierEntry)>>),
                     timestamp |-> 1]) }

\* the stores a session can find, damaged ones included
DamagedStores ==
    { [key \in {STORAGE_KEY, BACKUP_KEY, SETTINGS_KEY} |->
          IF key = STORAGE_KEY THEN primary
          ELSE IF key = BACKUP_KEY THEN backup ELSE Absent] :
      primary \in PrimaryTexts, backup \in BackupTexts }

\* ReadingJournalApp.init: new DataService() (which loads the entries) at
\* time 2, then subscribe(handleDataChange)
Init ==
    /\ now = 2
    /\ available = TRUE
    /\ failing = {}
    /\ localStorage \in InitialStores
    /\ entries = LoadedEntries(localStorage, available, now)
    /\ observers = <<"handleDataChange">>
    /\ delivered = <<>>
    /\ currentEntryId = Null
    /\ searchBox = NewSearchBox
    /\ timers = {}
    /\ peerEntries = entries
    /\ returned = NoArray
    /\ adding = NotAdding
    /\ currentTab = "entries"
    /\ activeTab = "entries"
    /\ lastOp = Result("init", TRUE, <<>>, Null, <<>>)
    /\ calls = 0

\* the same construction over a store that may be damaged or unusable
InitRead ==
    /\ now = 2
    /\ available \in BOOLEAN
    /\ failing = {}
    /\ localStorage \in DamagedStores
    /\ entries = LoadedEntries(localStorage, available, now)
    /\ observers = <<"handleDataChange">>
    /\ delivered = <<>>
    /\ currentEntryId = Null
    /\ searchBox = NewSearchBox
    /\ timers = {}
    /\ peerEntries = entries
    /\ returned = NoArray
    /\ adding = NotAdding
    /\ currentTab = "entries"
    /\ activeTab = "entries"
    /\ lastOp = Result("init", TRUE, <<>>, Null, <<>>)
    /\ calls = 0

\* the same construction in a browser whose store may be unusable or full
InitWrite ==
    /\ now = 2
    /\ available \in BOOLEAN
    /\ failing \in FailingInputs
    /\ localStorage \in InitialStores
    /\ entries = LoadedEntries(localStorage, available, now)
    /\ observers = <<"handleDataChange">>
    /\ delivered = <<>>
    /\ currentEntryId = Null
    /\ searchBox = NewSearchBox
    /\ timers = {}
    /\ peerEntries = entries
    /\ returned = NoArray
    /\ adding = NotAdding
    /\ currentTab = "entries"
    /\ activeTab = "entries"
    /\ lastOp = Result("init", TRUE, <<>>, Null, <<>>)
    /\ calls = 0

\* ----------------------------------------------------------------- actions
\* time passes between two handlers
Tick ==
    /\ now < MaxTime
    /\ now' = now + 1
    /\ UNCHANGED <<entries, localStorage, available, failing, currentTab,
                   activeTab, adding, returned, peerEntries, searchBox,
                   timers, observers, delivered, currentEntryId, lastOp,
                   calls>>

\* one more handler call, returning result
Call(result) ==
    /\ calls < MaxCalls
    /\ calls' = calls + 1
    /\ lastOp' = result

\* DataService.addEntry(entryData)
AddEntry(entryData) ==
    LET entry == EntryCreate(entryData, now, calls + 1) IN
    IF ~IsValid(entry)
    THEN /\ Call(Result("addEntry", FALSE, ValidateErrors(entry), Null, entryData))
         /\ delivered' = <<>>
         /\ UNCHANGED <<entries, now, localStorage, available, failing,
                        currentTab, activeTab, adding, returned, peerEntries,
                        searchBox, timers, observers, currentEntryId>>
    ELSE /\ Call(Result("addEntry", TRUE, <<>>, entry.gid, entryData))
         /\ entries' = Unshift(entries, entry)
         /\ localStorage' = SaveEntries(entries', localStorage, available, failing, now)
         /\ delivered' = NotifyObservers(observers, "entry_added", entry.gid)
         /\ UNCHANGED <<now, available, failing, currentTab, activeTab,
                        adding, returned, peerEntries, searchBox, timers,
                        observers, currentEntryId>>

\* DataService.updateEntry(id, updates)
UpdateEntry(id, updates) ==
    LET i == FindIndex(entries, id) IN
    IF i = 0
    THEN /\ Call(Result("updateEntry", FALSE, <<"Entry not found">>, Null,
                     [id |-> id, updates |-> updates]))
         /\ delivered' = <<>>
         /\ UNCHANGED <<entries, now, localStorage, available, failing,
                        currentTab, activeTab, adding, returned, peerEntries,
                        searchBox, timers, observers, currentEntryId>>
    ELSE \E entry \in {EntryUpdate(entries[i], updates, now)} :
         /\ entries' = [entries EXCEPT ![i] = entry]
         /\ IF ~IsValid(entry)
            THEN /\ Call(Result("updateEntry", FALSE, ValidateErrors(entry),
                                entry.gid, [id |-> id, updates |-> updates]))
                 /\ delivered' = <<>>
                 /\ UNCHANGED localStorage
            ELSE /\ Call(Result("updateEntry", TRUE, <<>>, entry.gid,
                             [id |-> id, updates |-> updates]))
                 /\ localStorage' = SaveEntries(entries', localStorage, available, failing, now)
                 /\ delivered' = NotifyObservers(observers, "entry_updated", entry.gid)
         /\ UNCHANGED <<now, available, failing, currentTab, activeTab,
                        adding, returned, peerEntries, searchBox, timers,
                        observers, currentEntryId>>

\* DataService.deleteEntry(id)
DeleteEntry(id) ==
    LET i == FindIndex(entries, id) IN
    IF i = 0
    THEN /\ Call(Result("deleteEntry", FALSE, <<"Entry not found">>, Null, id))
         /\ delivered' = <<>>
         /\ UNCHANGED <<entries, now, localStorage, available, failing,
                        currentTab, activeTab, adding, returned, peerEntries,
                        searchBox, timers, observers, currentEntryId>>
    ELSE /\ Call(Result("deleteEntry", TRUE, <<>>, entries[i].gid, id))
         /\ entries' = Splice(entries, i)
         /\ localStorage' = SaveEntries(entries', localStorage, available, failing, now)
         /\ delivered' = NotifyObservers(observers, "entry_deleted", entries[i].gid)
         /\ UNCHANGED <<now, available, failing, currentTab, activeTab,
                        adding, returned, peerEntries, searchBox, timers,
                        observers, currentEntryId>>

\* DataService.loadEntries(), as ReadingJournalApp.handleStorageChange runs it
LoadEntries ==
    /\ Call(Result("loadEntries", TRUE, <<>>, Null, <<>>))
    /\ entries' = LoadedEntries(localStorage, available, now)
    /\ delivered' = NotifyObservers(observers, "entries_loaded", Null)
    /\ UNCHANGED <<now, localStorage, available, failing, currentTab,
                   activeTab, adding, returned, peerEntries, searchBox,
                   timers, observers, currentEntryId>>

\* DataService.clearAllEntries()
ClearAllEntries ==
    /\ Call(Result("clearAllEntries", TRUE, <<>>, Null, <<>>))
    /\ entries' = <<>>
    /\ localStorage' = SaveEntries(entries', localStorage, available, failing, now)
    /\ delivered' = NotifyObservers(observers, "entries_cleared", Null)
    /\ UNCHANGED <<now, available, failing, currentTab, activeTab, adding,
                   returned, peerEntries, searchBox, timers, observers,
                   currentEntryId>>

\* ReadingJournalApp.handleStorageChange(event): another tab changed the slot
\* event.key
HandleStorageChange(key) ==
    IF key = STORAGE_KEY
    THEN LoadEntries
    ELSE /\ Call(Result("handleStorageChange", TRUE, <<>>, Null, key))
         /\ delivered' = <<>>
         /\ UNCHANGED <<entries, now, localStorage, available, failing,
                        currentTab, activeTab, adding, returned, peerEntries,
                        searchBox, timers, observers, currentEntryId>>

\* DataService.addEntry(entryData) in the second tab: its own entries field,
\* the same store (the observers of that tab are not part of the state)
PeerAddEntry(entryData) ==
    LET entry == EntryCreate(entryData, now, calls + 1) IN
    /\ delivered' = <<>>
    /\ IF ~IsValid(entry)
       THEN /\ Call(Result("peer.addEntry", FALSE, ValidateErrors(entry), Null,
                           entryData))
            /\ UNCHANGED <<peerEntries, localStorage>>
       ELSE /\ Call(Result("peer.addEntry", TRUE, <<>>, entry.gid, entryData))
            /\ peerEntries' = Unshift(peerEntries, entry)
            /\ localStorage' = SaveEntries(peerEntries', localStorage,
                                           available, failing, now)
    /\ UNCHANGED <<entries, now, available, failing, currentTab, activeTab,
                   adding, returned, searchBox, timers, observers,
                   currentEntryId>>

\* ReadingJournalApp.handleStorageChange(event) in the second tab
PeerHandleStorageChange(key) ==
    /\ Call(Result("peer.handleStorageChange", TRUE, <<>>, Null, key))
    /\ peerEntries' = IF key = STORAGE_KEY
                      THEN LoadedEntries(localStorage, available, now)
                      ELSE peerEntries
    /\ delivered' = <<>>
    /\ UNCHANGED <<entries, now, localStorage, available, failing,
                   currentTab, activeTab, adding, returned, searchBox,
                   timers, observers, currentEntryId>>

\* A query hands result to its caller.  Array.prototype.sort works in
\* place: had it been given the array of the entries field, that array is
\* now in the order of the result.
Query(op, arg, result) ==
    /\ Call(Result(op, TRUE, <<>>, Null, arg))
    /\ returned' = result
    /\ entries' = IF result.ref = "entries" THEN result.items ELSE entries
    /\ delivered' = <<>>
    /\ UNCHANGED <<now, localStorage, available, failing, currentTab,
                   activeTab, adding, peerEntries, searchBox, timers,
                   observers, currentEntryId>>

\* DataService.getAllEntries(sortBy)
CallGetAllEntries(sortBy) ==
    Query("getAllEntries", sortBy, ArraySort(Spread(entries), sortBy))

\* DataService.searchEntries(searchTerm)
CallSearchEntries(searchTerm) ==
    Query("searchEntries", searchTerm, SearchEntries(entries, searchTerm))

\* the caller changes the array it was handed: reverse() reorders it, pop()
\* truncates it; the array of the entries field changes with it when it is
\* that same array
CallerMutates(op) ==
    LET items == IF op = "reverse" THEN Reverse(returned.items)
                 ELSE SubSeq(returned.items, 1, Len(returned.items) - 1) IN
    /\ returned.ref # "none" /\ returned.items # <<>>
    /\ Call(Result(op, TRUE, <<>>, Null, <<>>))
    /\ returned' = [returned EXCEPT !.items = items]
    /\ entries' = IF returned.ref = "entries" THEN items ELSE entries
    /\ delivered' = <<>>
    /\ UNCHANGED <<now, localStorage, available, failing, currentTab,
                   activeTab, adding, peerEntries, searchBox, timers,
                   observers, currentEntryId>>

\* DataService.addEntry(entryData), one statement at a time, so that what an
\* observer finds during its notification is a state.  First Entry.create and
\* validate: failure is returned at once, otherwise the statements follow.
BeginAddEntry(entryData) ==
    LET entry == EntryCreate(entryData, now, calls + 1) IN
    /\ adding = NotAdding
    /\ calls < MaxCalls
    /\ delivered' = <<>>
    /\ IF ~IsValid(entry)
       THEN /\ Call(Result("addEntry", FALSE, ValidateErrors(entry), Null,
                           entryData))
            /\ UNCHANGED adding
       ELSE /\ adding' = [step |-> 1, entry |-> entry, entryData |-> entryData]
            /\ UNCHANGED <<lastOp, calls>>
    /\ UNCHANGED <<entries, now, localStorage, available, failing,
                   currentTab, activeTab, returned, peerEntries, searchBox,
                   timers, observers, currentEntryId>>

\* the next statement of the addEntry in progress; after the last one the
\* call returns success
AddStatement ==
    /\ adding # NotAdding
    /\ LET statement == AddStatements[adding.step] IN
       /\ entries' = IF statement = "unshift"
                     THEN Unshift(entries, adding.entry) ELSE entries
       /\ localStorage' = IF statement = "saveEntries"
                          THEN SaveEntries(entries, localStorage, available,
                                           failing, now)
                          ELSE localStorage
       /\ delivered' = IF statement = "notifyObservers"
                       THEN NotifyObservers(observers, "entry_added",
                                            adding.entry.gid)
                       ELSE delivered
    /\ IF adding.step = Len(AddStatements)
       THEN /\ Call(Result("addEntry", TRUE, <<>>, adding.entry.gid,
                           adding.entryData))
            /\ adding' = NotAdding
       ELSE /\ adding' = [adding EXCEPT !.step = @ + 1]
            /\ UNCHANGED <<lastOp, calls>>
    /\ UNCHANGED <<now, available, failing, currentTab, activeTab, returned,
                   peerEntries, searchBox, timers, observers,
                   currentEntryId>>

\* StorageService.importEntries(entries); input.isArray is what
\* Array.isArray(entries) returns, input.items are the elements
ImportEntries(input) ==
    LET validEntries == ValidEntries(input.items)
        rejected == ~input.isArray \/ validEntries = <<>>
    IN /\ Call(Result("importEntries",
                      ~rejected /\ StorageSaveResult(available, failing,
                                                     validEntries),
                      <<>>, Null, input))
       /\ localStorage' = IF rejected THEN localStorage
                          ELSE StorageSaveEntries(localStorage, available,
                                                  failing, validEntries, now)
       /\ delivered' = <<>>
       /\ UNCHANGED <<entries, now, available, failing, currentTab,
                      activeTab, adding, returned, peerEntries, searchBox,
                      timers, observers, currentEntryId>>

\* a caller runs DataService.getStatistics()
CallGetStatistics ==
    /\ Call(Result("getStatistics", TRUE, <<>>, Null, <<>>))
    /\ returned' = [ref |-> "object", items |-> <<GetStatistics(entries, now)>>]
    /\ delivered' = <<>>
    /\ UNCHANGED <<entries, now, localStorage, available, failing,
                   currentTab, activeTab, adding, peerEntries, searchBox,
                   timers, observers, currentEntryId>>

\* DataService.subscribe(callback)
Subscribe(callback) ==
    /\ Call(Result("subscribe", TRUE, <<>>, Null, callback))
    /\ observers' = Append(observers, callback)
    /\ delivered' = <<>>
    /\ UNCHANGED <<entries, now, localStorage, available, failing,
                   currentTab, activeTab, adding, returned, peerEntries,
                   searchBox, timers, currentEntryId>>

\* DataService.unsubscribe(callback)
Unsubscribe(callback) ==
    /\ Call(Result("unsubscribe", TRUE, <<>>, Null, callback))
    /\ observers' = SelectSeqBy(observers, SeqToSet(observers) \ {callback})
    /\ delivered' = <<>>
    /\ UNCHANGED <<entries, now, localStorage, available, failing,
                   currentTab, activeTab, adding, returned, peerEntries,
                   searchBox, timers, currentEntryId>>

\* Function.prototype.bind returns a new function object at every call:
\* this.handleDataChange.bind(this) as init made and subscribed it, and as
\* destroy makes it again
BoundInInit == "handleDataChange"

BoundInDestroy == "handleDataChange (bound again)"

\* ReadingJournalApp.destroy(): unsubscribe(this.handleDataChange.bind(this));
\* the components' destroy methods touch the page only
Destroy ==
    /\ Call(Result("destroy", TRUE, <<>>, Null, <<>>))
    /\ observers' = SelectSeqBy(observers,
                                SeqToSet(observers) \ {BoundInDestroy})
    /\ delivered' = <<>>
    /\ UNCHANGED <<entries, now, localStorage, available, failing,
                   currentTab, activeTab, adding, returned, peerEntries,
                   searchBox, timers, currentEntryId>>

\* TabNavigation.setActiveTab(tabId), run by a click on the tab button: the
\* marked tab returns at once, another one is marked and handed to
\* ReadingJournalApp.handleTabChange, whose showTab records it
SetActiveTab(tabId) ==
    /\ Call(Result("setActiveTab", TRUE, <<>>, Null, tabId))
    /\ IF activeTab = tabId
       THEN UNCHANGED <<currentTab, activeTab>>
       ELSE activeTab' = tabId /\ currentTab' = tabId
    /\ delivered' = <<>>
    /\ UNCHANGED <<entries, now, localStorage, available, failing, adding,
                   returned, peerEntries, searchBox, timers, observers,
                   currentEntryId>>

\* the button of the empty entry list: window.readingJournalApp.showTab('add')
ShowAddTab ==
    /\ entries = <<>> /\ currentTab = "entries"
    /\ Call(Result("showTab", TRUE, <<>>, Null, "add"))
    /\ currentTab' = "add"
    /\ delivered' = <<>>
    /\ UNCHANGED <<entries, now, localStorage, available, failing, adding,
                   returned, peerEntries, searchBox, timers, observers,
                   currentEntryId, activeTab>>

\* ReadingJournalApp.handleNewEntry(entryData), run by the entry form on the
\* add tab: addEntry, and on success showTab('entries') and searchBox.clear()
HandleNewEntry(entryData) ==
    LET entry == EntryCreate(entryData, now, calls + 1) IN
    /\ currentTab = "add"
    /\ IF ~IsValid(entry)
       THEN /\ Call(Result("handleNewEntry", FALSE, ValidateErrors(entry),
                           Null, entryData))
            /\ delivered' = <<>>
            /\ UNCHANGED <<entries, localStorage, currentTab, searchBox,
                           timers>>
       ELSE /\ Call(Result("handleNewEntry", TRUE, <<>>, entry.gid, entryData))
            /\ entries' = Unshift(entries, entry)
            /\ localStorage' = SaveEntries(entries', localStorage, available,
                                           failing, now)
            /\ delivered' = NotifyObservers(observers, "entry_added",
                                            entry.gid)
            /\ currentTab' = "entries"
            /\ timers' = SetTimeout(ClearTimeout(timers,
                                                 searchBox.debounceTimer),
                                    calls + 1, <<>>, DebounceDelay)
            /\ searchBox' = [debounceTimer |-> calls + 1, value |-> <<>>,
                             quiet |-> 0, evaluated |-> 0]
    /\ UNCHANGED <<now, available, failing, adding, returned, peerEntries,
                   observers, currentEntryId, activeTab>>

\* ModernReadingJournalApp.showEntryDetail(entryId)
ShowEntryDetail(entryId) ==
    /\ Call(Result("showEntryDetail", FindIndex(entries, entryId) # 0, <<>>, Null, <<>>))
    /\ currentEntryId' = entryId
    /\ delivered' = <<>>
    /\ UNCHANGED <<entries, now, localStorage, available, failing,
                   currentTab, activeTab, adding, returned, peerEntries,
                   searchBox, timers, observers>>

\* ModernReadingJournalApp.showHomeView()
ShowHomeView ==
    /\ Call(Result("showHomeView", TRUE, <<>>, Null, <<>>))
    /\ currentEntryId' = Null
    /\ delivered' = <<>>
    /\ UNCHANGED <<entries, now, localStorage, available, failing,
                   currentTab, activeTab, adding, returned, peerEntries,
                   searchBox, timers, observers>>

\* The shape the detail-view handlers share.  skip: the guard that makes the
\* handler return at once.  Otherwise the handler looks the shown entry up
\* (a lookup that finds none makes it throw before it changes anything),
\* mutates it (mutated maps each entry to what the handler's Entry method makes
\* of it) and saves the collection; nobody is notified.
DetailMutation(op, arg, skip, mutated) ==
    LET i == FindIndex(entries, currentEntryId) IN
    /\ delivered' = <<>>
    /\ UNCHANGED <<now, available, failing, currentTab, activeTab, adding,
                   returned, peerEntries, searchBox, timers, observers,
                   currentEntryId>>
    /\ IF skip \/ currentEntryId = Null \/ currentEntryId = 0
       THEN /\ Call(Result(op, FALSE, <<>>, Null, arg))
            /\ UNCHANGED <<entries, localStorage>>
       ELSE IF i = 0
       THEN /\ Call(Result(op, FALSE, <<"TypeError">>, Null, arg))
            /\ UNCHANGED <<entries, localStorage>>
       ELSE /\ Call(Result(op, TRUE, <<>>, entries[i].gid, arg))
            /\ entries' = [entries EXCEPT ![i] = mutated[entries[i]]]
            /\ localStorage' = SaveEntries(entries', localStorage, available, failing, now)

\* ModernReadingJournalApp.setRating(rating)
SetRating(rating) ==
    LET mutated == [e \in SeqToSet(entries) |-> EntrySetRating(e, rating, now)]
    IN DetailMutation("setRating", rating, FALSE, mutated)

\* ModernReadingJournalApp.addTakeaway(), the input box holding input
AddTakeaway(input) ==
    LET mutated == [e \in SeqToSet(entries) |-> EntryAddTakeaway(e, Trim(input), now)]
    IN DetailMutation("addTakeaway", input, Trim(input) = <<>>, mutated)

\* ModernReadingJournalApp.removeTakeaway(takeawayId)
RemoveTakeaway(takeawayId) ==
    LET mutated == [e \in SeqToSet(entries) |-> EntryRemoveTakeaway(e, takeawayId, now)]
    IN DetailMutation("removeTakeaway", <<>>, FALSE, mutated)

\* ModernReadingJournalApp.addLink(), the url and title boxes holding these
AddLink(url, title) ==
    LET mutated == [e \in SeqToSet(entries) |-> EntryAddRelatedLink(e, Trim(url), Trim(title), now)]
    IN DetailMutation("addLink", url, Trim(url) = <<>>, mutated)

\* ModernReadingJournalApp.removeLink(linkId)
RemoveLink(linkId) ==
    LET mutated == [e \in SeqToSet(entries) |-> EntryRemoveRelatedLink(e, linkId, now)]
    IN DetailMutation("removeLink", <<>>, FALSE, mutated)

\* ModernReadingJournalApp.addTag(), the tag box holding input
AddTag(input) ==
    LET mutated == [e \in SeqToSet(entries) |-> EntryAddTag(e, Trim(input), now)]
    IN DetailMutation("addTag", input, Trim(input) = <<>>, mutated)

\* ModernReadingJournalApp.removeTag(tag)
RemoveTag(tag) ==
    LET mutated == [e \in SeqToSet(entries) |-> EntryRemoveTag(e, tag, now)]
    IN DetailMutation("removeTag", tag, FALSE, mutated)

\* ModernReadingJournalApp.saveAdditionalNotes(), the notes box holding notes
SaveAdditionalNotes(notes) ==
    LET mutated == [e \in SeqToSet(entries) |-> EntryUpdate(e, [additionalNotes |-> notes], now)]
    IN DetailMutation("saveAdditionalNotes", <<>>, FALSE, mutated)

\* ModernReadingJournalApp.updateProgress(progress)
UpdateProgress(progress) ==
    LET mutated == [e \in SeqToSet(entries) |-> EntryUpdate(e, [progress |-> progress], now)]
    IN DetailMutation("updateProgress", <<>>, FALSE, mutated)

\* SearchBox.handleSearch(searchTerm), run by the input event that leaves
\* searchTerm in the box (op names the caller).  A call is made only while
\* the budget has room for the callback of the timeout it sets.
HandleSearchFrom(op, searchTerm) ==
    /\ calls + 2 <= MaxCalls
    /\ Call(Result(op, TRUE, <<>>, Null, searchTerm))
    /\ timers' = SetTimeout(ClearTimeout(timers, searchBox.debounceTimer),
                            calls + 1, searchTerm, DebounceDelay)
    /\ searchBox' = [debounceTimer |-> calls + 1, value |-> searchTerm,
                     quiet |-> 0, evaluated |-> 0]
    /\ delivered' = <<>>
    /\ UNCHANGED <<entries, now, localStorage, available, failing,
                   currentTab, activeTab, adding, returned, peerEntries,
                   observers, currentEntryId>>

\* the input event of the search box
HandleSearch(searchTerm) == HandleSearchFrom("handleSearch", searchTerm)

\* SearchBox.clear(), run by the Escape key
ClearSearch == HandleSearchFrom("clear", <<>>)

\* ms milliseconds pass while a timeout is running
Elapse(ms) ==
    /\ \E timer \in timers : timer.remaining > 0
    /\ timers' = {[timer EXCEPT !.remaining = Max(0, @ - ms)] : timer \in timers}
    /\ searchBox' = [searchBox EXCEPT !.quiet = Min(DebounceDelay, @ + ms)]
    /\ UNCHANGED <<entries, now, localStorage, available, failing,
                   currentTab, activeTab, adding, returned, peerEntries,
                   observers, delivered, currentEntryId, lastOp, calls>>

\* the browser runs the callback of a timeout that is due: onSearch(searchTerm)
TimerFires ==
    \E timer \in timers :
        /\ timer.remaining = 0
        /\ Call(Result("onSearch", TRUE, <<>>, Null, timer.searchTerm))
        /\ timers' = timers \ {timer}
        /\ searchBox' = [searchBox EXCEPT !.evaluated = @ + 1]
        /\ delivered' = <<>>
        /\ UNCHANGED <<entries, now, localStorage, available, failing,
                       currentTab, activeTab, adding, returned, peerEntries,
                       observers, currentEntryId>>

\* ----------------------------------------------------------- specification
Next ==
    \/ Tick
    \/ \E entryData \in FormInputs : AddEntry(entryData)
    \/ \E id \in IdInputs, updates \in UpdateInputs : UpdateEntry(id, updates)
    \/ \E id \in IdInputs : DeleteEntry(id)
    \/ LoadEntries
    \/ \E id \in IdInputs : ShowEntryDetail(id)
    \/ ShowHomeView
    \/ \E rating \in RatingInputs : SetRating(rating)
    \/ \E input \in TextInputs : AddTakeaway(input)
    \/ \E id \in IdInputs : RemoveTakeaway(id)
    \/ \E url \in TextInputs, title \in {<<>>, <<"T">>} : AddLink(url, title)
    \/ \E id \in IdInputs : RemoveLink(id)
    \/ \E input \in TagInputs : AddTag(input)
    \/ \E tag \in {<<"a">>} : RemoveTag(tag)
    \/ \E notes \in {<<"N">>} : SaveAdditionalNotes(notes)
    \/ \E progress \in {<<"P">>} : UpdateProgress(progress)

Spec == Init /\ [][Next]_vars


\* the Data Service's own operations alone
NextService ==
    \/ Tick
    \/ \E entryData \in FormInputs : AddEntry(entryData)
    \/ \E id \in IdInputs, updates \in UpdateInputs : UpdateEntry(id, updates)
    \/ \E id \in IdInputs : DeleteEntry(id)
    \/ LoadEntries

SpecService == Init /\ [][NextService]_vars

\* the detail view: entries are added, shown and changed through its handlers
NextDetail ==
    \/ Tick
    \/ \E entryData \in FormInputs : AddEntry(entryData)
    \/ LoadEntries
    \/ \E id \in IdInputs : ShowEntryDetail(id)
    \/ ShowHomeView
    \/ \E rating \in RatingInputs : SetRating(rating)
    \/ \E input \in TextInputs : AddTakeaway(input)
    \/ \E id \in IdInputs : RemoveTakeaway(id)
    \/ \E url \in TextInputs, title \in {<<>>, <<"T">>} : AddLink(url, title)
    \/ \E id \in IdInputs : RemoveLink(id)
    \/ \E input \in TagInputs : AddTag(input)
    \/ \E tag \in {<<"a">>} : RemoveTag(tag)
    \/ \E notes \in {<<"N">>} : SaveAdditionalNotes(notes)
    \/ \E progress \in {<<"P">>} : UpdateProgress(progress)

SpecDetail == Init /\ [][NextDetail]_vars


\* the updates that name id and timestamp or a reflection (valid or blank)
IdentityUpdates == {updates \in UpdateInputs : "reflection" \in DOMAIN updates}

\* the operations that create an entry, change it, save it and load it again
NextIdentity ==
    \/ Tick
    \/ \E entryData \in FormInputs : AddEntry(entryData)
    \/ \E id \in IdInputs, updates \in IdentityUpdates : UpdateEntry(id, updates)
    \/ LoadEntries
    \/ \E id \in IdInputs : ShowEntryDetail(id)
    \/ \E rating \in RatingInputs : SetRating(rating)
    \/ \E input \in TextInputs : AddTakeaway(input)
    \/ \E id \in IdInputs : RemoveTakeaway(id)
    \/ \E url \in TextInputs, title \in {<<>>, <<"T">>} : AddLink(url, title)
    \/ \E id \in IdInputs : RemoveLink(id)
    \/ \E input \in TagInputs : AddTag(input)
    \/ \E tag \in {<<"a">>} : RemoveTag(tag)

SpecIdentity == Init /\ [][NextIdentity]_vars


\* the Data Service with callbacks coming and going
NextObservers ==
    \/ Tick
    \/ \E entryData \in FormInputs : AddEntry(entryData)
    \/ \E id \in IdInputs, updates \in IdentityUpdates : UpdateEntry(id, updates)
    \/ \E id \in IdInputs : DeleteEntry(id)
    \/ \E callback \in CallbackInputs : Subscribe(callback)
    \/ \E callback \in CallbackInputs \cup {"handleDataChange"} : Unsubscribe(callback)

SpecObservers == Init /\ [][NextObservers]_vars


\* reading and writing a store that was found damaged
NextRead ==
    \/ Tick
    \/ \E entryData \in FormInputs : AddEntry(entryData)
    \/ LoadEntries

SpecRead == InitRead /\ [][NextRead]_vars


\* the Data Service's mutations over a store whose writes may fail
NextWrite ==
    \/ Tick
    \/ \E entryData \in FormInputs : AddEntry(entryData)
    \/ \E id \in IdInputs, updates \in WriteUpdates : UpdateEntry(id, updates)
    \/ \E id \in IdInputs : DeleteEntry(id)
    \/ ClearAllEntries

SpecWrite == InitWrite /\ [][NextWrite]_vars


\* the orders getAllEntries is asked for
SortInputs == {"created", "edited"}

\* the terms typed into the search box: none, blanks, a padded upper-case
\* letter, a letter no entry holds until an update writes it
TermInputs == { <<>>, <<" ">>, <<" ", "A">>, <<"z">> }

\* the updates made between the queries: a new reflection, a tag
QueryUpdates == { [reflection |-> <<"z">>], [tags |-> << <<"A">> >>] }

\* what the caller does to an array it was handed
MutateInputs == {"reverse", "pop"}

\* the Data Service's queries between its mutations, and what the callers do
\* to the arrays they are handed
NextQuery ==
    \/ Tick
    \/ \E entryData \in FormInputs : AddEntry(entryData)
    \/ \E id \in IdInputs, updates \in QueryUpdates : UpdateEntry(id, updates)
    \/ \E sortBy \in SortInputs : CallGetAllEntries(sortBy)
    \/ \E searchTerm \in TermInputs : CallSearchEntries(searchTerm)
    \/ \E op \in MutateInputs : CallerMutates(op)

SpecQuery == Init /\ [][NextQuery]_vars


\* the updates a caller makes before the collection is saved and loaded
\* again: a new reflection, a rating, the rating a caller clears with
RoundTripUpdates == { [reflection |-> <<"r">>], [rating |-> 3], [rating |-> 0] }

\* the entries are created, updated, saved and built again from the store
NextRoundTrip ==
    \/ Tick
    \/ \E entryData \in FormInputs : AddEntry(entryData)
    \/ \E id \in IdInputs, updates \in RoundTripUpdates :
          UpdateEntry(id, updates)
    \/ \E id \in IdInputs : DeleteEntry(id)
    \/ LoadEntries

SpecRoundTrip == Init /\ [][NextRoundTrip]_vars


\* addEntry statement by statement (nothing else runs while the handler
\* does), over a store whose writes may fail
NextAdd ==
    \/ adding = NotAdding /\ Tick
    \/ \E entryData \in FormInputs : BeginAddEntry(entryData)
    \/ AddStatement

SpecAdd == InitWrite /\ [][NextAdd]_vars


\* the objects an import file can hold: two complete ones (one with a blank
\* sourceName), and ones without id, with id 0, with an empty sourceName,
\* without reflection
Complete1 == [id |-> 1, sourceName |-> <<"D">>, reflection |-> <<"R">>]

Complete2 ==
    [id |-> 2, sourceName |-> <<" ">>, reflection |-> <<"r">>,
     sourceType |-> <<"B">>]

WithoutId == [sourceName |-> <<"D">>, reflection |-> <<"R">>]

WithIdZero == [id |-> 0, sourceName |-> <<"D">>, reflection |-> <<"R">>]

WithEmptyName == [id |-> 3, sourceName |-> <<>>, reflection |-> <<"R">>]

WithoutReflection == [id |-> 3, sourceName |-> <<"D">>]

\* what importEntries is handed: arrays of such objects, and an object that
\* wraps one
ImportInputs ==
    { [isArray |-> TRUE, items |-> items] :
        items \in { <<>>,
                    <<Complete1>>,
                    <<WithoutId>>,
                    <<WithoutId, Complete1>>,
                    <<Complete1, Complete2>>,
                    <<Complete2, Complete1>>,
                    <<WithEmptyName, WithoutReflection>>,
                    <<WithIdZero, Complete2>>,
                    <<Complete1, WithoutReflection, Complete2>> } }
    \cup { [isArray |-> FALSE, items |-> <<Complete1>>] }

\* imports into a store whose writes may fail
NextImport ==
    \/ Tick
    \/ \E input \in ImportInputs : ImportEntries(input)

SpecImport == InitWrite /\ [][NextImport]_vars


\* entries of earlier sessions: one made more than a week ago, and one made
\* while the system clock was ahead of what it shows now
OldEntry ==
    EntryCreate([sourceType |-> <<"B">>, sourceName |-> <<"d">>,
                 reflection |-> <<"R">>], 0 - 20, 0)

AheadEntry ==
    EntryCreate([sourceType |-> <<"B">>, sourceName |-> <<"D">>,
                 reflection |-> <<"R">>], 9, 0)

\* the stores those sessions left
StatStores ==
    { SaveEntries(es, [key \in {STORAGE_KEY, BACKUP_KEY, SETTINGS_KEY} |-> Absent],
                  TRUE, {}, 1) :
      es \in { <<>>, <<EarlierEntry>>, <<EarlierEntry, OldEntry>>,
               <<AheadEntry, EarlierEntry>>,
               <<AheadEntry, EarlierEntry, OldEntry>> } }

\* the construction of the app over such a store
InitStats ==
    /\ now = 2
    /\ available = TRUE
    /\ failing = {}
    /\ localStorage \in StatStores
    /\ entries = LoadedEntries(localStorage, available, now)
    /\ observers = <<"handleDataChange">>
    /\ delivered = <<>>
    /\ currentEntryId = Null
    /\ searchBox = NewSearchBox
    /\ timers = {}
    /\ peerEntries = entries
    /\ returned = NoArray
    /\ adding = NotAdding
    /\ currentTab = "entries"
    /\ activeTab = "entries"
    /\ lastOp = Result("init", TRUE, <<>>, Null, <<>>)
    /\ calls = 0

\* the statistics asked for between adds and deletes
NextStats ==
    \/ Tick
    \/ \E entryData \in FormInputs : AddEntry(entryData)
    \/ \E id \in IdInputs : DeleteEntry(id)
    \/ CallGetStatistics

SpecStats == InitStats /\ [][NextStats]_vars


\* the app is used and destroyed; the Data Service lives on
NextDestroy ==
    \/ Tick
    \/ \E entryData \in FormInputs : AddEntry(entryData)
    \/ \E id \in IdInputs, updates \in IdentityUpdates :
          UpdateEntry(id, updates)
    \/ \E id \in IdInputs : DeleteEntry(id)
    \/ LoadEntries
    \/ Destroy

SpecDestroy == Init /\ [][NextDestroy]_vars


\* the tabs of the navigation bar
TabInputs == {"entries", "add", "export"}

\* the user moves between the tabs and submits the entry form
NextNavigation ==
    \/ Tick
    \/ \E tabId \in TabInputs : SetActiveTab(tabId)
    \/ ShowAddTab
    \/ \E entryData \in FormInputs : HandleNewEntry(entryData)

SpecNavigation == Init /\ [][NextNavigation]_vars


\* the slots whose change a storage event can report
KeyInputs == {STORAGE_KEY, BACKUP_KEY, SETTINGS_KEY}

\* two tabs on one store: each adds entries and handles the storage events of
\* the other's writes, in any interleaving
NextTabs ==
    \/ Tick
    \/ \E entryData \in FormInputs : AddEntry(entryData)
    \/ \E entryData \in FormInputs : PeerAddEntry(entryData)
    \/ \E key \in KeyInputs : HandleStorageChange(key)
    \/ \E key \in KeyInputs : PeerHandleStorageChange(key)

SpecTabs == InitWrite /\ [][NextTabs]_vars


\* the search box: the user types, time passes, the browser runs the timeouts
\* that are due
NextSearch ==
    \/ \E searchTerm \in SearchInputs : HandleSearch(searchTerm)
    \/ ClearSearch
    \/ \E ms \in ElapseInputs : Elapse(ms)
    \/ TimerFires

SpecSearch ==
    /\ Init /\ [][NextSearch]_vars
    /\ WF_vars(\E ms \in ElapseInputs : Elapse(ms))
    /\ WF_vars(TimerFires)


\* ================================================================== claims
\* the entry of lineage g in es
EntryOf(es, g) == CHOOSE e \in SeqToSet(es) : e.gid = g

\* a string of blanks only (the empty string included)
Blank(str) == \A i \in 1..Len(str) : str[i] = " "

\* the form data name a non-blank sourceType, sourceName and reflection
FormPasses(formData) ==
    \A key \in {"sourceType", "sourceName", "reflection"} :
        key \in DOMAIN formData /\ ~Blank(formData[key])

\* the step is a call of op
Calls(op) == calls' = calls + 1 /\ lastOp'.op = op

\* C1: addEntry with form data that pass validation succeeds, getAllEntries
\* then returns exactly one more entry than before (the old ones and the new
\* one), and the new entry has editCount 0 and no lastEdited.
C1_AddGrowsByOne ==
    [][ (Calls("addEntry") /\ FormPasses(lastOp'.arg)) =>
            LET before == GetAllEntries(entries, "created")
                after  == GetAllEntries(entries', "created")
            IN /\ lastOp'.success
               /\ Len(after) = Len(before) + 1
               /\ SeqToSet(before) \subseteq SeqToSet(after)
               /\ \E i \in 1..Len(after) :
                     /\ after[i].gid = lastOp'.gid
                     /\ after[i].gid \notin {e.gid : e \in SeqToSet(before)}
                     /\ after[i].editCount = 0
                     /\ after[i].lastEdited = Null ]_vars

\* an entry was added to a collection that already held one
C1_Witness ==
    /\ lastOp.op = "addEntry" /\ lastOp.success
    /\ Len(entries) >= 2
    /\ entries[1].gid = lastOp.gid
    /\ entries[1].editCount = 0

\* C2: addEntry with form data that fail validation returns a failure with
\* the validation errors and leaves the in-memory sequence, the storage slots
\* and the observers as they were; no notification is delivered.
C2_InvalidAddChangesNothing ==
    [][ (Calls("addEntry") /\ ~FormPasses(lastOp'.arg)) =>
            /\ ~lastOp'.success
            /\ lastOp'.error # <<>>
            /\ entries' = entries
            /\ localStorage' = localStorage
            /\ observers' = observers
            /\ delivered' = <<>> ]_vars

\* an invalid add was refused while entries, both slots and an observer existed
C2_Witness ==
    /\ lastOp.op = "addEntry" /\ ~lastOp.success
    /\ entries # <<>>
    /\ localStorage[STORAGE_KEY] # Absent
    /\ localStorage[BACKUP_KEY] # Absent
    /\ observers # <<>>

\* C3: a successful updateEntry, whatever the partial fields, raises the
\* entry's editCount by exactly 1 and sets lastEdited to a time not before its
\* previous value.
C3_UpdateAddsOneEdit ==
    [][ (Calls("updateEntry") /\ lastOp'.success) =>
            LET before == EntryOf(entries, lastOp'.gid)
                after  == EntryOf(entries', lastOp'.gid)
            IN /\ after.editCount = before.editCount + 1
               /\ after.lastEdited >= before.lastEdited ]_vars

\* C4: after a successful deleteEntry(id), getEntryById(id) returns null.
C4_DeletedIdNotFound ==
    [][ (Calls("deleteEntry") /\ lastOp'.success) =>
            GetEntryById(entries', lastOp'.arg) = <<>> ]_vars

\* C5: no two entries of the in-memory sequence have the same id.
C5_IdsUnique ==
    \A i, j \in 1..Len(entries) : i # j => entries[i].id # entries[j].id

\* every copy of an entry: in memory, in the primary slot, in the backup slot
AllRecords ==
    SeqToSet(entries)
    \cup SeqToSet(GetEntries(localStorage, TRUE))
    \cup SeqToSet(RestoreFromBackup(localStorage, TRUE))

\* C6: an entry keeps the id and timestamp it was created with: after every
\* step, each copy of an entry (in memory or stored) has the id and timestamp
\* that every copy of that entry had before the step.
C6_IdAndTimestampKept ==
    [][ \A before \in AllRecords : \A after \in AllRecords' :
            after.gid = before.gid =>
                /\ after.id = before.id
                /\ after.timestamp = before.timestamp ]_vars

\* an entry changed by an update that named id and timestamp was saved and
\* loaded again, and still has the id it was created with
C6_Witness ==
    /\ lastOp.op = "loadEntries"
    /\ \E e \in SeqToSet(entries) :
          /\ e.reflection = <<"r">>
          /\ e.editCount >= 1
          /\ e.id = 1 /\ e.timestamp = 1

\* the calls that mutate an entry after its creation
MutationOps ==
    {"updateEntry", "saveAdditionalNotes", "updateProgress", "addTakeaway",
     "removeTakeaway", "addLink", "removeLink", "addTag", "removeTag", "setRating"}

\* C7: every successful mutation of an entry sets lastEdited to the current
\* time and increments editCount.
C7_MutationBumpsEditCount ==
    [][ (calls' = calls + 1 /\ lastOp'.op \in MutationOps /\ lastOp'.success
         /\ EntryOf(entries', lastOp'.gid) # EntryOf(entries, lastOp'.gid)) =>
            LET before == EntryOf(entries, lastOp'.gid)
                after  == EntryOf(entries', lastOp'.gid)
            IN /\ after.lastEdited = now
               /\ after.editCount = before.editCount + 1 ]_vars

\* C8: no entry has two tags that are equal ignoring case.
C8_TagsDistinctIgnoringCase ==
    \A e \in SeqToSet(entries) : \A i, j \in 1..Len(e.tags) :
        i # j => ToLowerCase(e.tags[i]) # ToLowerCase(e.tags[j])

\* the number of elements of tags equal to tag
Occurrences(tags, tag) == Cardinality({i \in 1..Len(tags) : tags[i] = tag})

\* C9: addTag puts the lower-cased, trimmed tag into tags once (leaving the
\* occurrences that were there); an addTag that follows an addTag of a case or
\* whitespace variant of the same tag on the same entry changes neither tags
\* nor lastEdited.
C9_AddTagIdempotent ==
    [][ (Calls("addTag") /\ lastOp'.success) =>
            LET before == EntryOf(entries, lastOp'.gid)
                after  == EntryOf(entries', lastOp'.gid)
                tag    == ToLowerCase(Trim(lastOp'.arg))
            IN /\ Occurrences(after.tags, tag) =
                    (IF Occurrences(before.tags, tag) = 0 THEN 1
                     ELSE Occurrences(before.tags, tag))
               /\ (/\ lastOp.op = "addTag" /\ lastOp.success
                   /\ lastOp.gid = lastOp'.gid
                   /\ ToLowerCase(Trim(lastOp.arg)) = tag)
                  => /\ after.tags = before.tags
                     /\ after.lastEdited = before.lastEdited ]_vars

\* addTag("A") found the tag an earlier addTag had stored as "a": the entry
\* has that one tag and was last edited before this call
C9_Witness ==
    /\ lastOp.op = "addTag" /\ lastOp.success /\ lastOp.arg = <<"A">>
    /\ \E e \in SeqToSet(entries) :
          /\ e.gid = lastOp.gid
          /\ e.tags = << <<"a">> >>
          /\ e.lastEdited # Null /\ e.lastEdited < now

\* C10: the rating of every entry is null or an integer from 1 to 5, and
\* setRating with a value outside 1..5 leaves rating and lastEdited as they were.
C10_RatingInRange ==
    [][ /\ \A e \in SeqToSet(entries') : e.rating = Null \/ e.rating \in 1..5
        /\ (Calls("setRating") /\ lastOp'.success /\ lastOp'.arg \notin 1..5) =>
              LET before == EntryOf(entries, lastOp'.gid)
                  after  == EntryOf(entries', lastOp'.gid)
              IN /\ after.rating = before.rating
                 /\ after.lastEdited = before.lastEdited ]_vars

\* no entry of es has this id
NoEntryHas(es, id) == \A i \in 1..Len(es) : es[i].id # id

\* C11: updateEntry and deleteEntry with an id no in-memory entry has return
\* the failure 'Entry not found' and leave the in-memory sequence, the storage
\* slots and the observers as they were; no notification is delivered.
C11_NotFoundChangesNothing ==
    [][ (\/ Calls("updateEntry") /\ NoEntryHas(entries, lastOp'.arg.id)
         \/ Calls("deleteEntry") /\ NoEntryHas(entries, lastOp'.arg)) =>
            /\ ~lastOp'.success
            /\ lastOp'.error = <<"Entry not found">>
            /\ entries' = entries
            /\ localStorage' = localStorage
            /\ observers' = observers
            /\ delivered' = <<>> ]_vars

\* updateEntry named an id that none of the entries held has
C11_Witness ==
    /\ lastOp.op = "updateEntry" /\ ~lastOp.success
    /\ lastOp.error = <<"Entry not found">>
    /\ entries # <<>>
    /\ NoEntryHas(entries, lastOp.arg.id)
    /\ localStorage[STORAGE_KEY] # Absent
    /\ observers # <<>>

\* the entry names a non-blank sourceType, sourceName and reflection
RequiredPresent(e) ==
    \A key \in {"sourceType", "sourceName", "reflection"} :
        e[key] # Undefined /\ ~Blank(e[key])

\* the fields an update can give a new value that stays: all but id,
\* timestamp and the three the update computes itself
PlainFields ==
    {"sourceType", "sourceName", "author", "reflection", "additionalNotes",
     "keyTakeaways", "relatedLinks", "tags", "rating", "progress"}

\* the primary slot holds the objects of es, in the order of es
PrimaryHolds(ls, es) ==
    /\ ls[STORAGE_KEY] # Absent
    /\ IsJson(ls[STORAGE_KEY])
    /\ LET stored == JsonParse(ls[STORAGE_KEY])
       IN /\ Len(stored) = Len(es)
          /\ \A i \in 1..Len(es) :
                \A key \in DOMAIN stored[i] : stored[i][key] = es[i][key]

\* C12: an updateEntry that finds its entry leaves the named field values and
\* the incremented editCount in memory whether it succeeds or not; when the
\* changed entry fails validation it returns failure, writes nothing and
\* notifies nobody; when it returns success the primary slot is written and
\* every observer receives entry_updated.
C12_FailedUpdateNotRolledBack ==
    [][ (Calls("updateEntry") /\ ~NoEntryHas(entries, lastOp'.arg.id)) =>
            LET updates == lastOp'.arg.updates
                before  == EntryOf(entries, lastOp'.gid)
                after   == EntryOf(entries', lastOp'.gid)
            IN /\ \A key \in PlainFields \cap DOMAIN updates :
                     after[key] = updates[key]
               /\ after.editCount =
                     (IF "editCount" \in DOMAIN updates
                      THEN updates.editCount ELSE before.editCount) + 1
               /\ lastOp'.success = RequiredPresent(after)
               /\ ~lastOp'.success =>
                     /\ localStorage' = localStorage
                     /\ delivered' = <<>>
               /\ lastOp'.success =>
                     /\ PrimaryHolds(localStorage', entries')
                     /\ Len(delivered') = Len(observers)
                     /\ \A i \in 1..Len(delivered') :
                           delivered'[i].event = "entry_updated" ]_vars

\* an update blanked the reflection of a stored entry and was refused: the
\* entry in memory has the blank reflection and one more edit, the stored copy
\* has neither
C12_Witness ==
    /\ lastOp.op = "updateEntry" /\ ~lastOp.success /\ lastOp.gid # Null
    /\ observers # <<>>
    /\ \E e \in SeqToSet(entries) :
          /\ e.gid = lastOp.gid
          /\ e.reflection = <<" ">>
          /\ e.editCount >= 1
          /\ \E o \in SeqToSet(GetEntries(localStorage, available)) :
                /\ o.gid = e.gid
                /\ o.reflection # <<" ">>
                /\ o.editCount = e.editCount - 1

\* every element of obs, in order, received event exactly once
DeliveredTo(obs, event, del) ==
    /\ Len(del) = Len(obs)
    /\ \A i \in 1..Len(obs) : del[i].callback = obs[i] /\ del[i].event = event

\* C13: a mutating call that is given valid arguments succeeds whatever its
\* observers do, every callback subscribed when it is made is invoked exactly
\* once, in subscription order, one that raises included and the ones after it
\* too, and the observer list is the same afterwards.
C13_EveryObserverNotified ==
    [][ /\ (Calls("addEntry") /\ FormPasses(lastOp'.arg)) =>
              /\ lastOp'.success
              /\ DeliveredTo(observers, "entry_added", delivered')
              /\ observers' = observers
        /\ (Calls("deleteEntry") /\ ~NoEntryHas(entries, lastOp'.arg)) =>
              /\ lastOp'.success
              /\ DeliveredTo(observers, "entry_deleted", delivered')
              /\ observers' = observers
        /\ (/\ Calls("updateEntry") /\ ~NoEntryHas(entries, lastOp'.arg.id)
            /\ RequiredPresent(EntryOf(entries', lastOp'.gid))) =>
              /\ lastOp'.success
              /\ DeliveredTo(observers, "entry_updated", delivered')
              /\ observers' = observers ]_vars

\* a mutation succeeded with a raising callback subscribed before another
\* one: all three callbacks were invoked and the raising one is still there
C13_Witness ==
    /\ lastOp.success
    /\ lastOp.op \in {"addEntry", "updateEntry", "deleteEntry"}
    /\ observers = <<"handleDataChange", "raising", "listener">>
    /\ Len(delivered) = 3
    /\ delivered[2].callback = "raising"
    /\ delivered[3].callback = "listener"

\* the calls of the Data Service that save the collection when they succeed
SavingOps == {"addEntry", "updateEntry", "deleteEntry", "clearAllEntries"}

\* C14: with the store available, after every successful addEntry,
\* updateEntry, deleteEntry or clearAllEntries the primary slot holds the
\* serialization of the whole in-memory sequence, in in-memory order.
C14_StorageAgreesWithMemory ==
    [][ (/\ calls' = calls + 1 /\ lastOp'.op \in SavingOps
         /\ lastOp'.success /\ available) =>
            PrimaryHolds(localStorage', entries') ]_vars

\* what the claim says a read of the store returns
ExpectedRead(ls, avail) ==
    LET primary == ls[STORAGE_KEY]
        backup  == ls[BACKUP_KEY]
    IN IF ~avail \/ primary = Absent \/ primary = EmptyText THEN <<>>
       ELSE IF primary[1] = "json" THEN primary[2]
       ELSE IF backup # Absent /\ backup[1] = "json" /\ backup[2].data[1] = "json"
            THEN backup[2].data[2]
            ELSE <<>>

\* C15: a read of the store gives the stored collection when the primary slot
\* parses, the empty collection when the store is unavailable or the primary
\* slot is empty, and for an unparseable primary slot the collection held in
\* the backup when that parses, the empty collection otherwise; loadEntries
\* builds its entries from exactly that, and the read changes no slot.
C15_ReadFallsBackToBackup ==
    [][ Calls("loadEntries") =>
            LET expected == ExpectedRead(localStorage, available)
            IN /\ Len(entries') = Len(expected)
               /\ \A i \in 1..Len(expected) :
                     \A key \in DOMAIN expected[i] :
                         entries'[i][key] = expected[i][key]
               /\ localStorage' = localStorage ]_vars

\* loadEntries found an unparseable primary slot and took the earlier
\* session's entry from the backup
C15_Witness ==
    /\ lastOp.op = "loadEntries"
    /\ available
    /\ localStorage[STORAGE_KEY] = GarbageText
    /\ Len(entries) = 1
    /\ entries[1].gid = 0

\* C16: a storage write made while the primary slot holds a value leaves, when
\* it succeeds, that value as the data of the backup and the new collection
\* in the primary slot; when it fails (the store cannot be used, the
\* collection cannot be serialized or the primary slot cannot be written) it
\* returns failure and all three slots are as they were before the call.
C16_BackupThenWriteOrNothing ==
    [][ (calls' = calls + 1 /\ lastOp'.op \in SavingOps /\ lastOp'.success) =>
            LET entriesData == [i \in 1..Len(entries') |-> ToObject(entries'[i])]
                fails == \/ ~available
                         \/ ~Serializable(entriesData)
                         \/ STORAGE_KEY \in failing
            IN /\ StorageSaveResult(available, failing, entriesData) = ~fails
               /\ fails => localStorage' = localStorage
               /\ (~fails /\ ~Falsy(localStorage[STORAGE_KEY])) =>
                     /\ PrimaryHolds(localStorage', entries')
                     /\ IsJson(localStorage'[BACKUP_KEY])
                     /\ JsonParse(localStorage'[BACKUP_KEY]).data
                            = localStorage[STORAGE_KEY] ]_vars

\* C17: at most one search evaluation is pending at any moment; onSearch is
\* called only once DebounceDelay milliseconds have passed since the latest
\* input event, with the term of that event, and not a second time for the
\* same event; and once an input event has set its timeout, the evaluation of
\* the latest term does happen.
C17_DebouncedSearch ==
    /\ [](Cardinality(timers) <= 1 /\ searchBox.evaluated <= 1)
    /\ [][ Calls("onSearch") =>
              /\ lastOp'.arg = searchBox.value
              /\ searchBox.quiet = DebounceDelay
              /\ searchBox.evaluated = 0 ]_vars
    /\ ((searchBox.debounceTimer # Null) ~> (searchBox.evaluated = 1))

\* two input events came within the delay, and the one onSearch call that
\* followed carried the term of the second
C17_Witness ==
    /\ lastOp.op = "onSearch"
    /\ calls = 3
    /\ searchBox.debounceTimer = 2
    /\ searchBox.evaluated = 1
    /\ lastOp.arg = searchBox.value
    /\ timers = {}

\* the lineages of the objects the primary slot holds, in stored order
StoredLineages(ls) ==
    IF IsJson(ls[STORAGE_KEY])
    THEN [i \in 1..Len(JsonParse(ls[STORAGE_KEY])) |->
             JsonParse(ls[STORAGE_KEY])[i].gid]
    ELSE <<>>

\* the lineages of the entries of es, in the order of es
Lineages(es) == [i \in 1..Len(es) |-> es[i].gid]

\* the step is a successful add whose write of the primary slot took place
WritingAdd(op, es) ==
    /\ Calls(op) /\ lastOp'.success
    /\ available /\ STORAGE_KEY \notin failing
    /\ lastOp'.gid \in SeqToSet(Lineages(es))

\* C18: writes of two tabs are not merged: after a tab's add has written the
\* store, the primary slot holds the added entry and none of the entries
\* that only the other tab's memory holds (what the other tab added since
\* the two loaded the same collection is lost); and a tab that handles the
\* storage event of the primary slot then holds exactly the stored entries,
\* in stored order, whatever it held before.
C18_TabsDoNotMerge ==
    [][ /\ WritingAdd("addEntry", entries') =>
              /\ lastOp'.gid \in SeqToSet(StoredLineages(localStorage'))
              /\ \A g \in SeqToSet(Lineages(peerEntries)) :
                    g \notin SeqToSet(Lineages(entries))
                        => g \notin SeqToSet(StoredLineages(localStorage'))
        /\ WritingAdd("peer.addEntry", peerEntries') =>
              /\ lastOp'.gid \in SeqToSet(StoredLineages(localStorage'))
              /\ \A g \in SeqToSet(Lineages(entries)) :
                    g \notin SeqToSet(Lineages(peerEntries))
                        => g \notin SeqToSet(StoredLineages(localStorage'))
        /\ (Calls("loadEntries") /\ available) =>
              Lineages(entries') = StoredLineages(localStorage)
        /\ (Calls("peer.handleStorageChange") /\ available
               /\ lastOp'.arg = STORAGE_KEY) =>
              Lineages(peerEntries') = StoredLineages(localStorage) ]_vars

\* both tabs loaded the same collection, this tab added an entry, then the
\* second tab added one without a reload: the store holds the second tab's
\* entry and has lost this tab's
C18_Witness ==
    /\ lastOp.op = "peer.addEntry" /\ lastOp.success
    /\ calls = 2
    /\ 1 \in SeqToSet(Lineages(entries))
    /\ 2 \in SeqToSet(StoredLineages(localStorage))
    /\ 1 \notin SeqToSet(StoredLineages(localStorage))
    /\ Len(StoredLineages(localStorage)) = Len(entries)

\* the place of e in es
Pos(es, e) == CHOOSE i \in 1..Len(es) : es[i] = e

\* the date the claim names for the order sortBy
ChosenDate(e, sortBy) ==
    IF sortBy = "edited" /\ e.lastEdited # Null THEN e.lastEdited
    ELSE e.timestamp

\* C19: getAllEntries(sortBy) returns a new array that holds exactly the
\* entries of the in-memory sequence, in descending order of the chosen date
\* (timestamp for created; lastEdited, or timestamp where there is none, for
\* edited), entries of equal date in their in-memory order; the call leaves
\* the in-memory sequence as it was, and so does a caller that reorders or
\* truncates the array it was handed.
C19_SortedDefensiveCopy ==
    [][ /\ Calls("getAllEntries") =>
              LET r == returned'.items
                  sortBy == lastOp'.arg
              IN /\ returned'.ref # "entries"
                 /\ Len(r) = Len(entries)
                 /\ SeqToSet(r) = SeqToSet(entries)
                 /\ \A i, j \in 1..Len(r) :
                       i < j =>
                         /\ ChosenDate(r[i], sortBy) >= ChosenDate(r[j], sortBy)
                         /\ ChosenDate(r[i], sortBy) = ChosenDate(r[j], sortBy)
                               => Pos(entries, r[i]) < Pos(entries, r[j])
                 /\ entries' = entries
        /\ (Calls("reverse") \/ Calls("pop")) =>
              /\ Len(returned.items) > 1 => returned' # returned
              /\ entries' = entries
              /\ localStorage' = localStorage ]_vars

\* the earlier session's entry was edited after a newer one was added, and
\* getAllEntries("edited") returned it first while the in-memory sequence
\* still has it last
C19_Witness ==
    /\ lastOp.op = "getAllEntries" /\ lastOp.arg = "edited"
    /\ Len(entries) = 2
    /\ returned.items = <<entries[2], entries[1]>>
    /\ entries[2].lastEdited > entries[1].timestamp

\* C20: searchEntries with an empty or blank term returns what
\* getAllEntries() returns; with another term it returns exactly the
\* in-memory entries that matchesSearch accepts for the trimmed term, each
\* once and in in-memory order; it never changes the in-memory sequence.
C20_SearchFiltersInOrder ==
    [][ Calls("searchEntries") =>
            LET r == returned'.items
                term == lastOp'.arg
            IN /\ entries' = entries
               /\ IF Blank(term)
                  THEN r = GetAllEntries(entries, "created")
                  ELSE /\ SeqToSet(r) =
                            {e \in SeqToSet(entries) :
                                MatchesSearch(e, Trim(term))}
                       /\ \A i, j \in 1..Len(r) :
                             i < j => Pos(entries, r[i]) < Pos(entries, r[j]) ]_vars

\* a padded term was searched for and only the older of two entries matched
C20_Witness ==
    /\ lastOp.op = "searchEntries"
    /\ Trim(lastOp.arg) # lastOp.arg /\ ~Blank(lastOp.arg)
    /\ Len(entries) = 2
    /\ returned.items = <<entries[2]>>

\* what save followed by load makes of e at time t: toObject, JSON.stringify,
\* JSON.parse, new Entry
RoundTrip(e, t) ==
    Entry(JsonParse(JsonStringifyEntries(<<ToObject(e)>>))[1], t, e.gid)

\* C21: every entry the Data Service holds is equal, field by field, to the
\* entry built from its serialized toObject() output.
C21_RoundTripLossless ==
    \A i \in 1..Len(entries) : RoundTrip(entries[i], now) = entries[i]

\* the entry meets the constraints of the data model
MeetsDataModel(e) ==
    /\ e.sourceType \in AllowedValues
    /\ e.sourceName # Undefined
    /\ Len(e.sourceName) >= SourceNameMinLength
    /\ Len(e.sourceName) <= SourceNameMaxLength
    /\ e.reflection # Undefined
    /\ Len(e.reflection) >= ReflectionMinLength
    /\ Len(e.reflection) <= ReflectionMaxLength
    /\ Len(e.author) <= AuthorMaxLength

\* C22: the entry that a successful addEntry created or a successful
\* updateEntry changed has a sourceType of the fixed vocabulary, a sourceName
\* of 2 to 200 characters, a reflection of 10 to 5000 characters and an
\* author of at most 100 characters.
C22_EntriesMeetDataModel ==
    [][ (/\ calls' = calls + 1
         /\ lastOp'.op \in {"addEntry", "updateEntry"}
         /\ lastOp'.success) =>
            MeetsDataModel(EntryOf(entries', lastOp'.gid)) ]_vars

\* C23: whenever a step changes the in-memory collection or one of its
\* entries and persists the change, every subscribed listener receives a
\* notification of that step.
C23_EveryMutationAnnounced ==
    [][ (entries' # entries /\ localStorage' # localStorage) =>
            /\ Len(delivered') = Len(observers)
            /\ \A i \in 1..Len(observers) :
                  delivered'[i].callback = observers[i] ]_vars

\* the step hands the observers an entry_added notification
NotifiesAdded ==
    /\ delivered' # delivered /\ delivered' # <<>>
    /\ delivered'[1].event = "entry_added"

HasIdNameReflection(o) ==
    /\ "id" \in DOMAIN o /\ o.id # 0
    /\ "sourceName" \in DOMAIN o /\ Len(o.sourceName) > 0
    /\ "reflection" \in DOMAIN o /\ Len(o.reflection) > 0

C26_StatisticsCountTrailingWeek ==
    [][ Calls("getStatistics") =>
            LET stats == returned'.items[1] IN
            /\ stats.totalEntries = Len(entries)
            /\ stats.uniqueSources =
                  Cardinality({ToLowerCase(entries[i].sourceName) :
                                  i \in 1..Len(entries)})
            /\ stats.thisWeek =
                  Cardinality({i \in 1..Len(entries) :
                                  /\ entries[i].timestamp >= now - 14
                                  /\ entries[i].timestamp <= now})
            /\ entries' = entries
            /\ localStorage' = localStorage
            /\ observers' = observers ]_vars

\* C27: after destroy() the handler that init() subscribed is no longer in
\* the observer list, so no later call of the Data Service invokes it.
C27_DestroyUnsubscribes ==
    [][ Calls("destroy") => BoundInInit \notin SeqToSet(observers') ]_vars

\* C28: whenever addEntry, updateEntry or deleteEntry returns success, the
\* primary slot holds the serialization of the in-memory collection, whether
\* the store can be used and written or not.
C28_SuccessImpliesDurable ==
    [][ (/\ calls' = calls + 1
         /\ lastOp'.op \in {"addEntry", "updateEntry", "deleteEntry"}
         /\ lastOp'.success) =>
            PrimaryHolds(localStorage', entries') ]_vars

\* the stored object names a non-blank sourceType, sourceName and reflection
StoredPassesValidate(o) ==
    \A key \in {"sourceType", "sourceName", "reflection"} :
        key \in DOMAIN o /\ ~Blank(o[key])

\* C29: every object in the primary slot passes Entry.validate(): what a
\* rejected updateEntry left in memory is never written, whichever call
\* writes the collection next.
C29_StoredEntriesValid ==
    IsJson(localStorage[STORAGE_KEY]) =>
        \A i \in 1..Len(JsonParse(localStorage[STORAGE_KEY])) :
            StoredPassesValidate(JsonParse(localStorage[STORAGE_KEY])[i])

\* C30: in every state the tab TabNavigation has marked is the tab
\* ReadingJournalApp shows, so that a click on a tab that is not shown
\* switches to it.
C30_TabsInStep == activeTab = currentTab

====
